---- MODULE Spec2Model ----
(***************************************************************************)
(* EverCart back end (server.js, kept as src/unnamed/part_001): the cart   *)
(* and order life cycle over the Mongoose models Product, User, Cart and   *)
(* Order.                                                                  *)
(*                                                                         *)
(* Every route handler is an async function.  Between two awaits it runs   *)
(* alone (one Node.js thread); at an await the data store executes one     *)
(* operation and other requests may run.  A handler is therefore modelled  *)
(* as one action per data-store operation: the action is the operation     *)
(* together with the handler code that runs up to the next await.          *)
(*                                                                         *)
(* Units.  Quantities are JavaScript Numbers; they are counted in halves   *)
(* here (2 stands for 1, 3 for 1.5), so that fractional quantities, which  *)
(* the handlers accept, are inputs.  Prices are counted in cents.  A sum   *)
(* of price * quantity is then a count of half cents.  Arithmetic is       *)
(* exact; binary floating point error is not modelled.                     *)
(***************************************************************************)
EXTENDS Integers, Sequences, FiniteSets, TLC

VARIABLES
    products,   \* the Product collection, by _id
    users,      \* the User collection: role of the account of an email
    carts,      \* the Cart collection, in insertion order; _id = position
    orders,     \* the Order collection, in insertion order; _id = position
    req,        \* the requests in flight: one handler activation per slot
    res         \* the response sent last

vars == <<products, users, carts, orders, req, res>>

----------------------------------------------------------------------------
(* Bounds of the model *)

\* largest line quantity (in halves) an add may produce
MaxQty == 3
\* a checkout starts only while fewer orders than this are stored
MaxOrders == 1

\* handler activations that may be in flight together
Reqs == {"r1", "r2"}

Emails == {"ann@shop.io", "bob@shop.io"}
AdminEmail == "root@shop.io"
ProductIds == {"p1", "p2"}

\* :id arguments of the admin product routes: "p0" is no ObjectId
ProductIdArgs == ProductIds \cup {"p0"}

\* the product fields of an admin update request (name, image, price given)
ProductData ==
    {[present |-> TRUE, name |-> "Mouse Pro", image |-> "mouse-pro.jpg", price |-> 1299]}

\* email arguments of the admin routes: the admin, a customer, nobody, none
AdminArgs == {AdminEmail, "ann@shop.io", "bob@shop.io", ""}

\* userEmail and productId arguments of a request body; "" is a missing one
EmailArgs == Emails \cup {""}
ProductArgs == ProductIds \cup {""}

\* quantity arguments of a request body, in halves: -1, 0, 0.5, 1
QtyValues == {-2, 0, 1, 2}
QuantityArgs ==
    {[given |-> FALSE, value |-> 0]} \cup {[given |-> TRUE, value |-> v] : v \in QtyValues}

\* deliveryAddress arguments: absent, complete, or lacking one sub-field
AddressFields == {"fullName", "address", "city", "state", "zipCode", "phone"}
EmptyAddress == [f \in AddressFields |-> ""]
FullAddress ==
    [fullName |-> "Ann Lee", address |-> "1 Main St", city |-> "Pune",
     state |-> "MH", zipCode |-> "411001", phone |-> "5550100"]
AddressArgs ==
    {[given |-> FALSE, value |-> EmptyAddress], [given |-> TRUE, value |-> FullAddress]}
    \cup {[given |-> TRUE, value |-> [FullAddress EXCEPT ![f] = ""]] : f \in AddressFields}

\* paymentMethod arguments: absent, a recognised value, an unrecognised one
PaymentArgs == {"", "card", "bitcoin"}

\* :id arguments of the admin order route: 0 is no ObjectId, the others are
\* the _id of the orders there can be and one that no order has
OrderIdArgs == 0..(MaxOrders + 1)

\* the _id a product created by the admin route gets: one no request names
\* before
NewProductId == "p3"

\* the product fields of an admin create request: complete, or without name
ProductCreateArgs ==
    ProductData \cup {[present |-> TRUE, name |-> "", image |-> "pad.jpg", price |-> 799]}

\* :id arguments of the admin user routes: the _id of an account is written
\* as the email it was made for; "u0" is no ObjectId
UserIdArgs == Emails \cup {AdminEmail, "u0"}

\* role arguments of a signup or user update body: absent, the two values
\* of the enum, an unrecognised one
RoleArgs == {"", "user", "admin", "owner"}

\* const ADMIN_KEY = process.env.ADMIN_KEY || 'EVERCART_ADMIN_2025'
ADMIN_KEY == "EVERCART_ADMIN_2025"

\* adminKey arguments of the admin create route: absent, wrong, right
AdminKeyArgs == {"", "letmein", ADMIN_KEY}

\* status arguments of the admin order route: absent, the five values of
\* the enum, an unrecognised one
StatusArgs ==
    {"", "pending", "processing", "shipped", "delivered", "cancelled", "refunded"}

----------------------------------------------------------------------------
(* Schemas *)

\* orderSchema.paymentMethod.enum
PaymentMethods == {"card", "cash_on_delivery", "upi"}

\* orderSchema.status.enum
Statuses == {"pending", "processing", "shipped", "delivered", "cancelled"}

NoProduct == [present |-> FALSE, name |-> "", image |-> "", price |-> 0]

\* productSchema: name, image required, price >= 0
ProductValid(p) == p.present /\ p.name # "" /\ p.image # "" /\ p.price >= 0

\* a fault: the schema sets no minimum
QuantityUnchecked(q) == TRUE

\* cartSchema.items.quantity: { type: Number, default: 1, min: 1 }
QuantityValid(q) == q >= 2

----------------------------------------------------------------------------
(* Array helpers of the handlers *)

\* cart.items.findIndex(item => item.productId.equals(productId)); 0 for -1
RECURSIVE FindIndexFrom(_, _, _)
FindIndexFrom(items, productId, i) ==
    IF i > Len(items) THEN 0
    ELSE IF items[i].productId = productId THEN i
    ELSE FindIndexFrom(items, productId, i + 1)

\* a fault: the callback ignores the product, so the first line matches
FindIndexFirst(items, productId) == IF items = <<>> THEN 0 ELSE 1

FindIndex(items, productId) == FindIndexFrom(items, productId, 1)

\* a fault: the filter keeps the lines of the product and drops the others
FilterIn(items, productId) == SelectSeq(items, LAMBDA it : it.productId = productId)

\* cart.items.filter(item => !item.productId.equals(productId))
FilterOut(items, productId) == SelectSeq(items, LAMBDA it : it.productId # productId)

\* a fault: splice(itemIndex) without a count removes the rest of the array
SpliceRest(items, i) == SubSeq(items, 1, i - 1)

\* cart.items.splice(itemIndex, 1)
Splice(items, i) == SubSeq(items, 1, i - 1) \o SubSeq(items, i + 1, Len(items))

----------------------------------------------------------------------------
(* The Cart collection *)

\* Cart.findOne({ userEmail }): the first matching document in natural
\* (insertion) order; 0 when there is none
RECURSIVE FindCartFrom(_, _, _)
FindCartFrom(cs, userEmail, i) ==
    IF i > Len(cs) THEN 0
    ELSE IF cs[i].userEmail = userEmail THEN i
    ELSE FindCartFrom(cs, userEmail, i + 1)

\* a fault: the query does not select on the user's email
FindCartOfAnyone(userEmail) == IF carts = <<>> THEN 0 ELSE 1

FindCart(userEmail) == FindCartFrom(carts, userEmail, 1)

Idle ==
    [pc |-> "idle", userEmail |-> "", productId |-> "", quantity |-> 0,
     paymentMethod |-> "", deliveryAddress |-> EmptyAddress, product |-> NoProduct,
     orderId |-> 0, status |-> "", userId |-> "", role |-> "",
     cart |-> 0, items |-> <<>>, fresh |-> TRUE]

\* The document a handler holds after findOne: its _id (0: a document made
\* with new Cart(), not stored yet), its items as read, and whether its
\* version key __v still equals the stored one.
Loaded(pc, userEmail, productId, quantity, paymentMethod, items) ==
    [pc |-> pc, userEmail |-> userEmail, productId |-> productId,
     quantity |-> quantity, paymentMethod |-> paymentMethod,
     deliveryAddress |-> EmptyAddress, product |-> NoProduct,
     orderId |-> 0, status |-> "", userId |-> "", role |-> "",
     cart |-> FindCart(userEmail), items |-> items, fresh |-> TRUE]

ItemsOf(userEmail) ==
    IF FindCart(userEmail) = 0 THEN <<>> ELSE carts[FindCart(userEmail)].items

\* The response sent: the route, the HTTP status, the message and, for a
\* clear, previousItemCount (0 in every other response, which has none),
\* and for a read of the cart its items (none in every other response).
Response(op, status, message) ==
    [op |-> op, status |-> status, message |-> message, previousItemCount |-> 0,
     items |-> <<>>]

\* The request of slot r ends: its slot is free again.  A write that
\* increments __v of cart document d (d = 0: none) leaves every other
\* handler that holds d with an outdated version.
Finish(r, d) ==
    req' = [s \in Reqs |->
              IF s = r THEN Idle
              ELSE IF d # 0 /\ req[s].cart = d THEN [req[s] EXCEPT !.fresh = FALSE]
              ELSE req[s]]

----------------------------------------------------------------------------
(* cart.save(): what Mongoose sends for a modified cart document.          *)
(*   a new document                 -> insert                              *)
(*   items.push(x)                  -> $push, __v incremented, no check    *)
(*   items[i].quantity = q          -> $set items.i.quantity where __v     *)
(*                                     is the version read                 *)
(*   items = [...], items.splice()  -> $set items where __v is the         *)
(*                                     version read, __v incremented       *)
(*   nothing modified               -> no write                            *)
(* The document is validated against cartSchema first; a failed validation *)
(* or a version mismatch rejects save(), and the handler's catch answers   *)
(* 500.                                                                    *)

Line(productId, quantity) == [productId |-> productId, quantity |-> quantity]

InsertCart(userEmail, items) ==
    carts' = Append(carts, [userEmail |-> userEmail, items |-> items])

PushItem(d, item) ==
    carts' = [carts EXCEPT ![d].items = Append(@, item)]

\* a fault: the quantity is added to the stored one
SetQuantityMerged(d, i, q) ==
    carts' = [carts EXCEPT ![d].items[i].quantity = @ + q]

SetQuantity(d, i, q) ==
    carts' = [carts EXCEPT ![d].items[i].quantity = q]

SetItems(d, items) ==
    carts' = [carts EXCEPT ![d].items = items]

----------------------------------------------------------------------------
(* POST /api/cart/add *)

\* const quantityToAdd = quantity || 1
QuantityToAdd(quantity) ==
    IF quantity.given /\ quantity.value # 0 THEN quantity.value ELSE 2

\* a fault: the quantity is overwritten, not increased
ReplacedQuantity(quantity, quantityToAdd) == quantityToAdd

\* cart.items[existingItemIndex].quantity += quantityToAdd
IncreasedQuantity(quantity, quantityToAdd) == quantity + quantityToAdd

\* Validation, then Cart.findOne({ userEmail }).
AddFind(r, userEmail, productId, quantity) ==
    /\ req[r].pc = "idle"
    /\ UNCHANGED <<products, users, carts, orders>>
    /\ IF userEmail = "" \/ productId = ""
       THEN /\ res' = Response("add", 400, "User email and product ID are required")
            /\ UNCHANGED req
       ELSE IF QuantityToAdd(quantity) <= 0
       THEN /\ res' = Response("add", 400, "Quantity must be greater than 0")
            /\ UNCHANGED req
       ELSE /\ LET i == FindIndex(ItemsOf(userEmail), productId)
               IN  i > 0 => IncreasedQuantity(ItemsOf(userEmail)[i].quantity,
                                              QuantityToAdd(quantity)) <= MaxQty
            /\ req' = [req EXCEPT ![r] =
                         Loaded("add_save", userEmail, productId,
                                QuantityToAdd(quantity), "", ItemsOf(userEmail))]
            /\ UNCHANGED res

\* findIndex, then quantity += or push, then cart.save().
AddSave(r) ==
    LET q == req[r]
        i == FindIndex(q.items, q.productId)
        ok == Response("add", 200, "Product added to cart successfully")
        failed == Response("add", 500, "Failed to add product to cart")
    IN  /\ q.pc = "add_save"
        /\ UNCHANGED <<products, users, orders>>
        /\ IF i > 0
           THEN \* cart.items[existingItemIndex].quantity += quantityToAdd
                IF q.fresh
                THEN /\ SetQuantity(q.cart, i, IncreasedQuantity(q.items[i].quantity, q.quantity))
                     /\ res' = ok
                     /\ Finish(r, 0)
                ELSE /\ UNCHANGED carts
                     /\ res' = failed
                     /\ Finish(r, 0)
           ELSE \* cart.items.push({ productId, quantity: quantityToAdd })
                IF ~QuantityValid(q.quantity)
                THEN /\ UNCHANGED carts
                     /\ res' = failed
                     /\ Finish(r, 0)
                ELSE IF q.cart = 0
                THEN /\ InsertCart(q.userEmail, <<Line(q.productId, q.quantity)>>)
                     /\ res' = ok
                     /\ Finish(r, 0)
                ELSE /\ PushItem(q.cart, Line(q.productId, q.quantity))
                     /\ res' = ok
                     /\ Finish(r, q.cart)

----------------------------------------------------------------------------
(* POST /api/cart/remove *)

\* Validation, Cart.findOne, the filter and the length comparison.
RemoveFind(r, userEmail, productId) ==
    /\ req[r].pc = "idle"
    /\ UNCHANGED <<products, users, carts, orders>>
    /\ IF userEmail = "" \/ productId = ""
       THEN /\ res' = Response("remove", 400, "User email and product ID are required")
            /\ UNCHANGED req
       ELSE IF FindCart(userEmail) = 0
       THEN /\ res' = Response("remove", 404, "Cart not found")
            /\ UNCHANGED req
       ELSE IF Len(FilterOut(ItemsOf(userEmail), productId)) = Len(ItemsOf(userEmail))
       THEN /\ res' = Response("remove", 404, "Product not found in cart")
            /\ UNCHANGED req
       ELSE /\ req' = [req EXCEPT ![r] =
                         Loaded("remove_save", userEmail, productId, 0, "",
                                ItemsOf(userEmail))]
            /\ UNCHANGED res

\* cart.items = cart.items.filter(...); cart.save()
RemoveSave(r) ==
    LET q == req[r]
    IN  /\ q.pc = "remove_save"
        /\ UNCHANGED <<products, users, orders>>
        /\ IF q.fresh
           THEN /\ SetItems(q.cart, FilterOut(q.items, q.productId))
                /\ res' = Response("remove", 200, "Product removed from cart successfully")
                /\ Finish(r, q.cart)
           ELSE /\ UNCHANGED carts
                /\ res' = Response("remove", 500, "Failed to remove product from cart")
                /\ Finish(r, 0)

----------------------------------------------------------------------------
(* POST /api/cart/update *)

\* Validation, Cart.findOne and findIndex.
UpdateFind(r, userEmail, productId, quantity) ==
    /\ req[r].pc = "idle"
    /\ UNCHANGED <<products, users, carts, orders>>
    /\ IF userEmail = "" \/ productId = "" \/ ~quantity.given
       THEN /\ res' = Response("update", 400,
                               "User email, product ID, and quantity are required")
            /\ UNCHANGED req
       ELSE IF FindCart(userEmail) = 0
       THEN /\ res' = Response("update", 404, "Cart not found")
            /\ UNCHANGED req
       ELSE IF FindIndex(ItemsOf(userEmail), productId) = 0
       THEN /\ res' = Response("update", 404, "Product not found in cart")
            /\ UNCHANGED req
       ELSE /\ req' = [req EXCEPT ![r] =
                         Loaded("update_save", userEmail, productId, quantity.value, "",
                                ItemsOf(userEmail))]
            /\ UNCHANGED res

\* splice or quantity = ..., then cart.save()
UpdateSave(r) ==
    LET q == req[r]
        i == FindIndex(q.items, q.productId)
        ok == Response("update", 200, "Cart updated successfully")
        failed == Response("update", 500, "Failed to update cart")
    IN  /\ q.pc = "update_save"
        /\ UNCHANGED <<products, users, orders>>
        /\ IF q.quantity <= 0
           THEN \* cart.items.splice(itemIndex, 1)
                IF q.fresh
                THEN /\ SetItems(q.cart, Splice(q.items, i))
                     /\ res' = ok
                     /\ Finish(r, q.cart)
                ELSE /\ UNCHANGED carts
                     /\ res' = failed
                     /\ Finish(r, 0)
           ELSE \* cart.items[itemIndex].quantity = quantity
                IF q.quantity = q.items[i].quantity
                THEN /\ UNCHANGED carts
                     /\ res' = ok
                     /\ Finish(r, 0)
                ELSE IF QuantityValid(q.quantity) /\ q.fresh
                THEN /\ SetQuantity(q.cart, i, q.quantity)
                     /\ res' = ok
                     /\ Finish(r, 0)
                ELSE /\ UNCHANGED carts
                     /\ res' = failed
                     /\ Finish(r, 0)

----------------------------------------------------------------------------
(* POST /api/cart/clear *)

\* Validation and Cart.findOne.
ClearFind(r, userEmail) ==
    /\ req[r].pc = "idle"
    /\ UNCHANGED <<products, users, carts, orders>>
    /\ IF userEmail = ""
       THEN /\ res' = Response("clear", 400, "User email is required")
            /\ UNCHANGED req
       ELSE /\ req' = [req EXCEPT ![r] =
                         Loaded("clear_save", userEmail, "", 0, "", ItemsOf(userEmail))]
            /\ UNCHANGED res

\* a fault: the quantities are summed
RECURSIVE PreviousQuantity(_)
PreviousQuantity(items) ==
    IF items = <<>> THEN 0 ELSE items[1].quantity + PreviousQuantity(Tail(items))

\* const previousItemCount = cart.items.length
PreviousItemCount(items) == Len(items)

\* res.json({ message: 'Cart cleared successfully', previousItemCount, newItemCount: 0 })
ClearResponse(items) ==
    [Response("clear", 200, "Cart cleared successfully")
     EXCEPT !.previousItemCount = PreviousItemCount(items)]

\* new Cart({ userEmail, items: [] }).save(), or cart.items = []; cart.save()
ClearSave(r) ==
    LET q == req[r]
    IN  /\ q.pc = "clear_save"
        /\ UNCHANGED <<products, users, orders>>
        /\ IF q.cart = 0
           THEN /\ InsertCart(q.userEmail, <<>>)
                /\ res' = Response("clear", 200, "Cart not found, created empty cart")
                /\ Finish(r, 0)
           ELSE IF q.items = <<>>
           THEN /\ UNCHANGED carts
                /\ res' = ClearResponse(q.items)
                /\ Finish(r, 0)
           ELSE IF q.fresh
           THEN /\ SetItems(q.cart, <<>>)
                /\ res' = ClearResponse(q.items)
                /\ Finish(r, q.cart)
           ELSE /\ UNCHANGED carts
                /\ res' = Response("clear", 500, "Failed to clear cart")
                /\ Finish(r, 0)

----------------------------------------------------------------------------
(* POST /api/orders *)

\* a fault: a reference without a product is populated with a placeholder
PopulateWithPlaceholder(items) ==
    [i \in 1..Len(items) |->
        [productId |-> items[i].productId, quantity |-> items[i].quantity,
         product |-> IF products[items[i].productId].present
                     THEN products[items[i].productId]
                     ELSE [present |-> TRUE, name |-> "Unknown", image |-> "none.jpg",
                           price |-> 0]]]

\* .populate('items.productId'): each reference replaced by the product
\* document, or by null (NoProduct) when there is none
Populate(items) ==
    [i \in 1..Len(items) |->
        [productId |-> items[i].productId, quantity |-> items[i].quantity,
         product |-> products[items[i].productId]]]

----------------------------------------------------------------------------
(* GET /api/cart *)

\* a fault: the read creates the cart it did not find
CartGetCreating(r, userEmail) ==
    /\ req[r].pc = "idle"
    /\ UNCHANGED <<products, users, orders, req>>
    /\ IF userEmail = ""
       THEN /\ res' = Response("cart", 400, "User email is required")
            /\ UNCHANGED carts
       ELSE IF FindCart(userEmail) = 0
       THEN /\ res' = Response("cart", 200, "")
            /\ InsertCart(userEmail, <<>>)
       ELSE /\ res' = [Response("cart", 200, "")
                        EXCEPT !.items = Populate(ItemsOf(userEmail))]
            /\ UNCHANGED carts

\* Validation, Cart.findOne({ userEmail }).populate('items.productId'), and
\* the response: { items: [] } without a cart, the populated cart otherwise.
CartGet(r, userEmail) ==
    /\ req[r].pc = "idle"
    /\ UNCHANGED <<products, users, carts, orders, req>>
    /\ IF userEmail = ""
       THEN res' = Response("cart", 400, "User email is required")
       ELSE IF FindCart(userEmail) = 0
       THEN res' = Response("cart", 200, "")
       ELSE res' = [Response("cart", 200, "")
                    EXCEPT !.items = Populate(ItemsOf(userEmail))]

----------------------------------------------------------------------------
(* POST /api/orders: the snapshot *)

\* a fault: the snapshot leaves the quantity to the default of 1
OrderItemOfOne(item) ==
    [productId |-> item.productId, productName |-> item.product.name,
     productImage |-> item.product.image, quantity |-> 2,
     price |-> item.product.price]

\* the map over cart.items: the snapshot of one line
OrderItem(item) ==
    [productId |-> item.productId, productName |-> item.product.name,
     productImage |-> item.product.image, quantity |-> item.quantity,
     price |-> item.product.price]

OrderItems(items) == [i \in 1..Len(items) |-> OrderItem(items[i])]

\* totalAmount += item.productId.price * item.quantity, over the lines
RECURSIVE TotalAmount(_)
TotalAmount(items) ==
    IF items = <<>> THEN 0
    ELSE items[1].product.price * items[1].quantity + TotalAmount(Tail(items))

\* a fault: the total is cut to whole cents, not rounded
Truncate2(halfCents) == halfCents \div 2

\* Math.round(totalAmount * 100) / 100: half cents to cents, halves up
Round2(halfCents) == (halfCents + 1) \div 2

\* orderSchema: validation of the document given to Order.create
OrderValid(o) ==
    /\ o.paymentMethod \in PaymentMethods
    /\ o.status \in Statuses
    /\ o.totalAmount >= 0
    /\ \A f \in AddressFields : o.deliveryAddress[f] # ""
    /\ \A i \in 1..Len(o.items) :
          /\ o.items[i].productName # ""
          /\ o.items[i].productImage # ""
          /\ QuantityValid(o.items[i].quantity)
          /\ o.items[i].price >= 0

\* the argument of Order.create
NewOrder(q) ==
    [userEmail |-> q.userEmail, items |-> OrderItems(q.items),
     totalAmount |-> Round2(TotalAmount(q.items)),
     deliveryAddress |-> q.deliveryAddress, paymentMethod |-> q.paymentMethod,
     status |-> "pending"]

\* a fault: only a missing cart counts as empty
CartMissing(userEmail) == FindCart(userEmail) = 0

\* !cart || cart.items.length === 0
CartIsEmpty(userEmail) == FindCart(userEmail) = 0 \/ Len(ItemsOf(userEmail)) = 0

\* Validation, then Cart.findOne({ userEmail }).populate('items.productId').
\* a fault: only the recipient's name is looked at
AddressNamed(value) == value["fullName"] # ""

\* !fullName || !address || !city || !state || !zipCode || !phone, negated
AddressComplete(value) == \A f \in AddressFields : value[f] # ""

OrderFind(r, userEmail, deliveryAddress, paymentMethod) ==
    /\ req[r].pc = "idle"
    /\ UNCHANGED <<products, users, carts, orders>>
    /\ IF userEmail = "" \/ ~deliveryAddress.given \/ paymentMethod = ""
       THEN /\ res' = Response("order", 400,
                               "User email, delivery address, and payment method are required")
            /\ UNCHANGED req
       ELSE IF ~AddressComplete(deliveryAddress.value)
       THEN /\ res' = Response("order", 400, "Complete delivery address is required")
            /\ UNCHANGED req
       ELSE IF CartIsEmpty(userEmail)
       THEN /\ res' = Response("order", 400, "Cart is empty")
            /\ UNCHANGED req
       ELSE /\ Len(orders) < MaxOrders
            /\ req' = [req EXCEPT ![r] =
                         [Loaded("order_create", userEmail, "", 0, paymentMethod,
                                 Populate(ItemsOf(userEmail)))
                          EXCEPT !.deliveryAddress = deliveryAddress.value]]
            /\ UNCHANGED res

\* a fault: the cart is emptied before the order is written
OrderCreateAfterClear(r, stored) ==
    LET q == req[r]
    IN  /\ q.pc = "order_create"
        /\ UNCHANGED <<products, users>>
        /\ SetItems(q.cart, <<>>)
        /\ IF /\ \A i \in 1..Len(q.items) : q.items[i].product.present
              /\ OrderValid(NewOrder(q))
              /\ stored
           THEN /\ orders' = Append(orders, NewOrder(q))
                /\ res' = Response("order", 201, "Order placed successfully")
                /\ Finish(r, q.cart)
           ELSE /\ UNCHANGED orders
                /\ res' = Response("order", 500, "Failed to create order")
                /\ Finish(r, q.cart)

\* The map over cart.items and Order.create.  Reading .price of a null
\* product throws; Order.create rejects an invalid document, or fails with
\* the data store (stored = FALSE).  Either way the catch answers 500.
OrderCreate(r, stored) ==
    LET q == req[r]
    IN  /\ q.pc = "order_create"
        /\ UNCHANGED <<products, users, carts>>
        /\ IF /\ \A i \in 1..Len(q.items) : q.items[i].product.present
              /\ OrderValid(NewOrder(q))
              /\ stored
           THEN /\ orders' = Append(orders, NewOrder(q))
                /\ req' = [req EXCEPT ![r].pc = "order_clear"]
                /\ UNCHANGED res
           ELSE /\ UNCHANGED orders
                /\ res' = Response("order", 500, "Failed to create order")
                /\ Finish(r, 0)

\* cart.items = []; cart.save(); then the 201 response
OrderClear(r) ==
    LET q == req[r]
    IN  /\ q.pc = "order_clear"
        /\ UNCHANGED <<products, users, orders>>
        /\ IF q.fresh
           THEN /\ SetItems(q.cart, <<>>)
                /\ res' = Response("order", 201, "Order placed successfully")
                /\ Finish(r, q.cart)
           ELSE /\ UNCHANGED carts
                /\ res' = Response("order", 500, "Failed to create order")
                /\ Finish(r, 0)

----------------------------------------------------------------------------
(* PUT and DELETE /api/admin/products/:id *)

\* mongoose.Types.ObjectId.isValid(id)
IsValidId(id) == id \in ProductIds

\* a fault: any account passes
AnyAccount(email) == email \in DOMAIN users /\ users[email] # "none"

\* User.findOne({ email: email?.toLowerCase() }); !user || user.role !== 'admin'
IsAdmin(email) == email \in DOMAIN users /\ users[email] = "admin"

\* The id check and the admin verification of an update.
ProductUpdateAuth(r, email, id, data) ==
    /\ req[r].pc = "idle"
    /\ UNCHANGED <<products, users, carts, orders>>
    /\ IF ~IsValidId(id)
       THEN /\ res' = Response("product_update", 400, "Invalid product ID format")
            /\ UNCHANGED req
       ELSE IF ~IsAdmin(email)
       THEN /\ res' = Response("product_update", 403, "Admin access required")
            /\ UNCHANGED req
       ELSE /\ req' = [req EXCEPT ![r] =
                         [Idle EXCEPT !.pc = "product_update", !.productId = id,
                                      !.product = data]]
            /\ UNCHANGED res

\* a fault: the orders follow the catalog instead of keeping their snapshot
ProductUpdateWriteThrough(r) ==
    LET q == req[r]
        renew(item) ==
            IF item.productId = q.productId
            THEN [item EXCEPT !.productName = q.product.name, !.price = q.product.price]
            ELSE item
    IN  /\ q.pc = "product_update"
        /\ UNCHANGED <<users, carts>>
        /\ products[q.productId].present
        /\ products' = [products EXCEPT ![q.productId] = q.product]
        /\ orders' = [i \in 1..Len(orders) |->
                        [orders[i] EXCEPT !.items =
                            [j \in 1..Len(orders[i].items) |-> renew(orders[i].items[j])]]]
        /\ res' = Response("product_update", 200, "Product updated successfully")
        /\ Finish(r, 0)

\* Product.findByIdAndUpdate(id, {...}, { new: true, runValidators: true })
ProductUpdateWrite(r) ==
    LET q == req[r]
    IN  /\ q.pc = "product_update"
        /\ UNCHANGED <<users, carts, orders>>
        /\ IF ~ProductValid(q.product)
           THEN /\ UNCHANGED products
                /\ res' = Response("product_update", 500, "Failed to update product")
           ELSE IF ~products[q.productId].present
           THEN /\ UNCHANGED products
                /\ res' = Response("product_update", 404, "Product not found")
           ELSE /\ products' = [products EXCEPT ![q.productId] = q.product]
                /\ res' = Response("product_update", 200, "Product updated successfully")
        /\ Finish(r, 0)

\* The id check and the admin verification of a deletion.
ProductDeleteAuth(r, email, id) ==
    /\ req[r].pc = "idle"
    /\ UNCHANGED <<products, users, carts, orders>>
    /\ IF ~IsValidId(id)
       THEN /\ res' = Response("product_delete", 400, "Invalid product ID format")
            /\ UNCHANGED req
       ELSE IF ~IsAdmin(email)
       THEN /\ res' = Response("product_delete", 403, "Admin access required")
            /\ UNCHANGED req
       ELSE /\ req' = [req EXCEPT ![r] =
                         [Idle EXCEPT !.pc = "product_delete", !.productId = id]]
            /\ UNCHANGED res

\* Product.findByIdAndDelete(id)
ProductDeleteWrite(r) ==
    LET q == req[r]
    IN  /\ q.pc = "product_delete"
        /\ UNCHANGED <<users, carts, orders>>
        /\ IF ~products[q.productId].present
           THEN /\ UNCHANGED products
                /\ res' = Response("product_delete", 404, "Product not found")
           ELSE /\ products' = [products EXCEPT ![q.productId] = NoProduct]
                /\ res' = Response("product_delete", 200, "Product deleted successfully")
        /\ Finish(r, 0)

----------------------------------------------------------------------------
(* POST /api/admin/products *)

\* The admin verification and the check of the fields.
ProductCreateAuth(r, email, data) ==
    /\ req[r].pc = "idle"
    /\ UNCHANGED <<products, users, carts, orders>>
    /\ IF ~IsAdmin(email)
       THEN /\ res' = Response("product_create", 403, "Admin access required")
            /\ UNCHANGED req
       ELSE IF data.name = "" \/ data.image = "" \/ data.price = 0
       THEN /\ res' = Response("product_create", 400, "All product fields are required")
            /\ UNCHANGED req
       ELSE /\ ~products[NewProductId].present
            /\ req' = [req EXCEPT ![r] =
                         [Idle EXCEPT !.pc = "product_create", !.product = data]]
            /\ UNCHANGED res

\* Product.create({...})
ProductCreateWrite(r) ==
    LET q == req[r]
    IN  /\ q.pc = "product_create"
        /\ UNCHANGED <<users, carts, orders>>
        /\ IF ~ProductValid(q.product)
           THEN /\ UNCHANGED products
                /\ res' = Response("product_create", 500, "Failed to create product")
           ELSE /\ products' = [products EXCEPT ![NewProductId] = q.product]
                /\ res' = Response("product_create", 201, "Product created successfully")
        /\ Finish(r, 0)

----------------------------------------------------------------------------
(* POST /api/signup and POST /api/admin/create *)

\* userSchema.role: { type: String, enum: ['user', 'admin'], default: 'user' }
Roles == {"user", "admin"}

HasAccount(email) == email \in DOMAIN users /\ users[email] \in Roles

\* a fault: the role of the request body is passed on to User.create
SignupRole(role) == IF role \in Roles THEN role ELSE "user"

\* User.create({ name, email, password }): the body's role is not passed,
\* the schema default applies
DefaultRole(role) == "user"

\* Validation and User.findOne({ email }) of a signup; the body may carry a
\* role.
SignupFind(r, email, role) ==
    /\ req[r].pc = "idle"
    /\ UNCHANGED <<products, users, carts, orders>>
    /\ IF email = ""
       THEN /\ res' = Response("signup", 400, "All fields are required")
            /\ UNCHANGED req
       ELSE IF HasAccount(email)
       THEN /\ res' = Response("signup", 400, "Email already registered")
            /\ UNCHANGED req
       ELSE /\ req' = [req EXCEPT ![r] =
                         [Idle EXCEPT !.pc = "signup_create", !.userId = email,
                                      !.role = DefaultRole(role)]]
            /\ UNCHANGED res

\* bcrypt.hash and User.create of a signup; the unique index on email
\* rejects a second account.
SignupCreate(r) ==
    LET q == req[r]
    IN  /\ q.pc = "signup_create"
        /\ UNCHANGED <<products, carts, orders>>
        /\ IF HasAccount(q.userId)
           THEN /\ UNCHANGED users
                /\ res' = Response("signup", 500, "Registration failed. Please try again.")
           ELSE /\ users' = [users EXCEPT ![q.userId] = q.role]
                /\ res' = Response("signup", 201, "User registered successfully")
        /\ Finish(r, 0)

\* The key check, validation and User.findOne({ email }) of an admin create.
AdminCreateFind(r, email, adminKey) ==
    /\ req[r].pc = "idle"
    /\ UNCHANGED <<products, users, carts, orders>>
    /\ IF adminKey # ADMIN_KEY
       THEN /\ res' = Response("admin_create", 403, "Invalid admin key")
            /\ UNCHANGED req
       ELSE IF email = ""
       THEN /\ res' = Response("admin_create", 400, "All fields are required")
            /\ UNCHANGED req
       ELSE IF HasAccount(email)
       THEN /\ res' = Response("admin_create", 400, "Email already registered")
            /\ UNCHANGED req
       ELSE /\ req' = [req EXCEPT ![r] =
                         [Idle EXCEPT !.pc = "admin_create", !.userId = email,
                                      !.role = "admin"]]
            /\ UNCHANGED res

\* bcrypt.hash and User.create({ ..., role: 'admin' })
AdminCreateCreate(r) ==
    LET q == req[r]
    IN  /\ q.pc = "admin_create"
        /\ UNCHANGED <<products, carts, orders>>
        /\ IF HasAccount(q.userId)
           THEN /\ UNCHANGED users
                /\ res' = Response("admin_create", 500, "Failed to create admin account")
           ELSE /\ users' = [users EXCEPT ![q.userId] = q.role]
                /\ res' = Response("admin_create", 201, "Admin created successfully")
        /\ Finish(r, 0)

----------------------------------------------------------------------------
(* PUT and DELETE /api/admin/users/:id *)

\* mongoose.Types.ObjectId.isValid(id)
IsValidUserId(id) == id \in Emails \cup {AdminEmail}

\* The id check and the admin verification of a user update.  The request
\* carries the name and the email the account has, and a role.
UserUpdateAuth(r, email, id, role) ==
    /\ req[r].pc = "idle"
    /\ UNCHANGED <<products, users, carts, orders>>
    /\ IF ~IsValidUserId(id)
       THEN /\ res' = Response("user_update", 400, "Invalid user ID format")
            /\ UNCHANGED req
       ELSE IF ~IsAdmin(email)
       THEN /\ res' = Response("user_update", 403, "Admin access required")
            /\ UNCHANGED req
       ELSE /\ req' = [req EXCEPT ![r] =
                         [Idle EXCEPT !.pc = "user_update", !.userId = id, !.role = role]]
            /\ UNCHANGED res

\* User.findByIdAndUpdate(id, { name, email, role }, { new: true, runValidators: true })
UserUpdateWrite(r) ==
    LET q == req[r]
    IN  /\ q.pc = "user_update"
        /\ UNCHANGED <<products, carts, orders>>
        /\ IF q.role \notin Roles
           THEN /\ UNCHANGED users
                /\ res' = Response("user_update", 500, "Failed to update user")
           ELSE IF ~HasAccount(q.userId)
           THEN /\ UNCHANGED users
                /\ res' = Response("user_update", 404, "User not found")
           ELSE /\ users' = [users EXCEPT ![q.userId] = q.role]
                /\ res' = Response("user_update", 200, "User updated successfully")
        /\ Finish(r, 0)

\* The id check, the admin verification and the check against deleting
\* one's own account.
UserDeleteAuth(r, email, id) ==
    /\ req[r].pc = "idle"
    /\ UNCHANGED <<products, users, carts, orders>>
    /\ IF ~IsValidUserId(id)
       THEN /\ res' = Response("user_delete", 400, "Invalid user ID format")
            /\ UNCHANGED req
       ELSE IF ~IsAdmin(email)
       THEN /\ res' = Response("user_delete", 403, "Admin access required")
            /\ UNCHANGED req
       ELSE IF id = email
       THEN /\ res' = Response("user_delete", 400, "Cannot delete your own admin account")
            /\ UNCHANGED req
       ELSE /\ req' = [req EXCEPT ![r] = [Idle EXCEPT !.pc = "user_delete", !.userId = id]]
            /\ UNCHANGED res

\* User.findByIdAndDelete(id)
UserDeleteWrite(r) ==
    LET q == req[r]
    IN  /\ q.pc = "user_delete"
        /\ UNCHANGED <<products, carts, orders>>
        /\ IF ~HasAccount(q.userId)
           THEN /\ UNCHANGED users
                /\ res' = Response("user_delete", 404, "User not found")
           ELSE /\ users' = [users EXCEPT ![q.userId] = "none"]
                /\ res' = Response("user_delete", 200, "User deleted successfully")
        /\ Finish(r, 0)

----------------------------------------------------------------------------
(* PUT /api/admin/orders/:id *)

\* mongoose.Types.ObjectId.isValid(id)
IsValidOrderId(id) == id >= 1

\* const validStatuses = ['pending', 'processing', 'shipped', 'delivered', 'cancelled']
ValidStatuses == {"pending", "processing", "shipped", "delivered", "cancelled"}

\* a fault: the route leaves the check of the status to the store
AnyStatus(status) == TRUE

\* validStatuses.includes(status)
IsValidStatus(status) == status \in ValidStatuses

\* The id check, the admin verification and the check of the status.
OrderUpdateAuth(r, email, id, status) ==
    /\ req[r].pc = "idle"
    /\ UNCHANGED <<products, users, carts, orders>>
    /\ IF ~IsValidOrderId(id)
       THEN /\ res' = Response("order_update", 400, "Invalid order ID format")
            /\ UNCHANGED req
       ELSE IF ~IsAdmin(email)
       THEN /\ res' = Response("order_update", 403, "Admin access required")
            /\ UNCHANGED req
       ELSE IF ~IsValidStatus(status)
       THEN /\ res' = Response("order_update", 400, "Invalid order status")
            /\ UNCHANGED req
       ELSE /\ req' = [req EXCEPT ![r] =
                         [Idle EXCEPT !.pc = "order_update", !.orderId = id,
                                      !.status = status]]
            /\ UNCHANGED res

\* a fault: only the steps of the usual order of handling are written
OrderUpdateWriteForward(r) ==
    LET q == req[r]
        rank(st) == CHOOSE n \in 1..5 :
                       st = <<"pending", "processing", "shipped", "delivered", "cancelled">>[n]
    IN  /\ q.pc = "order_update"
        /\ UNCHANGED <<products, users, carts>>
        /\ IF q.status \notin Statuses
           THEN /\ UNCHANGED orders
                /\ res' = Response("order_update", 500, "Failed to update order")
           ELSE IF q.orderId > Len(orders)
           THEN /\ UNCHANGED orders
                /\ res' = Response("order_update", 404, "Order not found")
           ELSE /\ orders' = [orders EXCEPT ![q.orderId].status =
                                 IF rank(q.status) >= rank(@) THEN q.status ELSE @]
                /\ res' = Response("order_update", 200, "Order status updated successfully")
        /\ Finish(r, 0)

\* a fault: the update replaces the document by { status }
OrderUpdateOverwrite(r) ==
    LET q == req[r]
    IN  /\ q.pc = "order_update"
        /\ UNCHANGED <<products, users, carts>>
        /\ IF q.status \notin Statuses
           THEN /\ UNCHANGED orders
                /\ res' = Response("order_update", 500, "Failed to update order")
           ELSE IF q.orderId > Len(orders)
           THEN /\ UNCHANGED orders
                /\ res' = Response("order_update", 404, "Order not found")
           ELSE /\ orders' = [orders EXCEPT ![q.orderId] =
                                 [@ EXCEPT !.status = q.status, !.items = <<>>,
                                           !.totalAmount = 0]]
                /\ res' = Response("order_update", 200, "Order status updated successfully")
        /\ Finish(r, 0)

\* Order.findByIdAndUpdate(id, { status }, { new: true, runValidators: true })
OrderUpdateWrite(r) ==
    LET q == req[r]
    IN  /\ q.pc = "order_update"
        /\ UNCHANGED <<products, users, carts>>
        /\ IF q.status \notin Statuses
           THEN /\ UNCHANGED orders
                /\ res' = Response("order_update", 500, "Failed to update order")
           ELSE IF q.orderId > Len(orders)
           THEN /\ UNCHANGED orders
                /\ res' = Response("order_update", 404, "Order not found")
           ELSE /\ orders' = [orders EXCEPT ![q.orderId].status = q.status]
                /\ res' = Response("order_update", 200, "Order status updated successfully")
        /\ Finish(r, 0)

----------------------------------------------------------------------------
(* The system *)

\* The data base the server starts on: the seeded catalog, one admin
\* account made with the admin key, one customer account, no cart, no order.
Init ==
    /\ products = [p \in ProductIds \cup {NewProductId} |->
                     IF p = "p1"
                     THEN [present |-> TRUE, name |-> "Mouse", image |-> "mouse.jpg", price |-> 1099]
                     ELSE IF p = "p2"
                     THEN [present |-> TRUE, name |-> "Cable", image |-> "cable.jpg", price |-> 550]
                     ELSE NoProduct]
    /\ users = [e \in Emails \cup {AdminEmail} |->
                  IF e = AdminEmail THEN "admin"
                  ELSE IF e = "ann@shop.io" THEN "user" ELSE "none"]
    /\ carts = <<>>
    /\ orders = <<>>
    /\ req = [r \in Reqs |-> Idle]
    /\ res = Response("", 0, "")

\* a quantity argument that is given
Qty(v) == [given |-> TRUE, value |-> v]

\* The cart store: one request at a time, any arguments.
Next ==
    \/ \E e \in EmailArgs, p \in ProductArgs, q \in QuantityArgs : AddFind("r1", e, p, q)
    \/ AddSave("r1")
    \/ \E e \in EmailArgs, p \in ProductArgs : RemoveFind("r1", e, p)
    \/ RemoveSave("r1")
    \/ \E e \in EmailArgs, p \in ProductArgs, q \in QuantityArgs : UpdateFind("r1", e, p, q)
    \/ UpdateSave("r1")
    \/ \E e \in EmailArgs : ClearFind("r1", e)
    \/ ClearSave("r1")
    \/ \E e \in EmailArgs : CartGet("r1", e)

Spec == Init /\ [][Next]_vars

\* Requests of one customer for one product, running concurrently; one
\* checkout at a time.
RaceNext ==
    \E r \in Reqs :
        \/ \E q \in {Qty(-2), Qty(1), Qty(2)} : AddFind(r, "ann@shop.io", "p1", q)
        \/ AddSave(r)
        \/ RemoveFind(r, "ann@shop.io", "p1")
        \/ RemoveSave(r)
        \/ \E q \in {Qty(0), Qty(1)} : UpdateFind(r, "ann@shop.io", "p1", q)
        \/ UpdateSave(r)
        \/ ClearFind(r, "ann@shop.io")
        \/ ClearSave(r)
        \/ r = "r1" /\ OrderFind(r, "ann@shop.io", [given |-> TRUE, value |-> FullAddress], "card")
        \/ \E stored \in BOOLEAN : OrderCreate(r, stored)
        \/ OrderClear(r)

RaceSpec == Init /\ [][RaceNext]_vars

\* Checkout and the catalog: one customer fills a cart and checks out while
\* the admin routes change the product "p1"; one request at a time.
OrderNext ==
    \/ AddFind("r1", "ann@shop.io", "p1", Qty(3))
    \/ AddFind("r1", "ann@shop.io", "p2", Qty(2))
    \/ AddSave("r1")
    \/ ClearFind("r1", "ann@shop.io")
    \/ ClearSave("r1")
    \/ \E e \in {"ann@shop.io", ""}, a \in AddressArgs, m \in PaymentArgs :
          OrderFind("r1", e, a, m)
    \/ \E stored \in BOOLEAN : OrderCreate("r1", stored)
    \/ OrderClear("r1")
    \/ \E e \in AdminArgs, id \in {"p1", "p0"}, d \in ProductData :
          ProductUpdateAuth("r1", e, id, d)
    \/ ProductUpdateWrite("r1")
    \/ \E e \in AdminArgs, id \in {"p1", "p0"} : ProductDeleteAuth("r1", e, id)
    \/ ProductDeleteWrite("r1")

OrderSpec == Init /\ [][OrderNext]_vars

\* The life of an order: one customer checks out one product, and the admin
\* order route changes the status; one request at a time.
StatusNext ==
    \/ AddFind("r1", "ann@shop.io", "p1", Qty(2))
    \/ AddSave("r1")
    \/ OrderFind("r1", "ann@shop.io", [given |-> TRUE, value |-> FullAddress], "card")
    \/ \E stored \in BOOLEAN : OrderCreate("r1", stored)
    \/ OrderClear("r1")
    \/ \E e \in AdminArgs, id \in OrderIdArgs, st \in StatusArgs :
          OrderUpdateAuth("r1", e, id, st)
    \/ OrderUpdateWrite("r1")

StatusSpec == Init /\ [][StatusNext]_vars

\* The admin panel: the account of one email is made, changed and deleted,
\* and the admin routes are called with the email of the admin, of a
\* customer and of that account, while one order is placed; one request at
\* a time.
AdminNext ==
    \/ AddFind("r1", "ann@shop.io", "p1", Qty(3))
    \/ AddSave("r1")
    \/ OrderFind("r1", "ann@shop.io", [given |-> TRUE, value |-> FullAddress], "card")
    \/ OrderCreate("r1", TRUE)
    \/ OrderClear("r1")
    \/ \E e \in Emails, role \in {"", "admin"} : SignupFind("r1", e, role)
    \/ SignupCreate("r1")
    \/ \E k \in AdminKeyArgs : AdminCreateFind("r1", "bob@shop.io", k)
    \/ AdminCreateCreate("r1")
    \/ \E e \in Emails \cup {AdminEmail} :
          \/ \E d \in ProductCreateArgs : ProductCreateAuth("r1", e, d)
          \/ \E id \in {"p2", "p0"}, d \in ProductData : ProductUpdateAuth("r1", e, id, d)
          \/ \E id \in {"p2", "p0"} : ProductDeleteAuth("r1", e, id)
          \/ \E id \in {"bob@shop.io", "u0"}, role \in RoleArgs :
                UserUpdateAuth("r1", e, id, role)
          \/ \E id \in {"bob@shop.io", "u0"} : UserDeleteAuth("r1", e, id)
          \/ \E id \in OrderIdArgs, st \in {"shipped", "refunded"} :
                OrderUpdateAuth("r1", e, id, st)
    \/ ProductCreateWrite("r1")
    \/ ProductUpdateWrite("r1")
    \/ ProductDeleteWrite("r1")
    \/ UserUpdateWrite("r1")
    \/ UserDeleteWrite("r1")
    \/ OrderUpdateWrite("r1")

AdminSpec == Init /\ [][AdminNext]_vars

\* Two customers using their carts and checking out, each with one request
\* in flight at a time.
Customer(r) == IF r = "r1" THEN "ann@shop.io" ELSE "bob@shop.io"

OwnerNext ==
    \E r \in Reqs :
        \/ AddFind(r, Customer(r), "p1", Qty(2))
        \/ AddSave(r)
        \/ RemoveFind(r, Customer(r), "p1")
        \/ RemoveSave(r)
        \/ \E q \in {Qty(0), Qty(3)} : UpdateFind(r, Customer(r), "p1", q)
        \/ UpdateSave(r)
        \/ ClearFind(r, Customer(r))
        \/ ClearSave(r)
        \/ OrderFind(r, Customer(r), [given |-> TRUE, value |-> FullAddress], "card")
        \/ OrderCreate(r, TRUE)
        \/ OrderClear(r)

OwnerSpec == Init /\ [][OwnerNext]_vars

\* Checkouts and adds of one customer running concurrently, on a cart of one line.
CheckoutRaceNext ==
    \E r \in Reqs :
        \/ \E q \in {Qty(1), Qty(2)} : AddFind(r, "ann@shop.io", "p1", q)
        \/ AddSave(r)
        \/ OrderFind(r, "ann@shop.io", [given |-> TRUE, value |-> FullAddress], "card")
        \/ OrderCreate(r, TRUE)
        \/ OrderClear(r)

CheckoutRaceSpec == Init /\ [][CheckoutRaceNext]_vars

\* Adds only: one customer, two products, two requests running concurrently.
AddRaceNext ==
    \E r \in Reqs :
        \/ \E p \in ProductIds, q \in {Qty(1), Qty(2)} : AddFind(r, "ann@shop.io", p, q)
        \/ AddSave(r)

AddRaceSpec == Init /\ [][AddRaceNext]_vars

----------------------------------------------------------------------------
(* Properties *)

\* the items of the cart of an email in a Cart collection
ItemsIn(cs, userEmail) ==
    IF FindCartFrom(cs, userEmail, 1) = 0 THEN <<>>
    ELSE cs[FindCartFrom(cs, userEmail, 1)].items

\* the positions of the lines of a product
LinesOf(items, productId) == {i \in 1..Len(items) : items[i].productId = productId}

\* the quantity a cart holds of a product; 0 without a line
HeldQuantity(items, productId) ==
    IF LinesOf(items, productId) = {} THEN 0
    ELSE items[CHOOSE i \in LinesOf(items, productId) : TRUE].quantity

\* sum of quantity * price over the items of an order, in half cents
RECURSIVE OrderSum(_)
OrderSum(items) ==
    IF items = <<>> THEN 0
    ELSE items[1].quantity * items[1].price + OrderSum(Tail(items))

WellFormedCheckout(a, m) ==
    a.given /\ m # "" /\ \A f \in AddressFields : a.value[f] # ""

\* C1: with one request at a time, an add that answers 200 leaves exactly
\* one line for the product, and its quantity is the quantity the cart held
\* before (0 without a line) plus the quantity added; so N adds of q1..qN
\* from a cart without the product leave one line of q1+...+qN.
C1_AddMerges ==
    [][(req["r1"].pc = "add_save" /\ res'.status = 200) =>
         LET q == req["r1"]
             before == ItemsIn(carts, q.userEmail)
             after == ItemsIn(carts', q.userEmail)
         IN  /\ Cardinality(LinesOf(after, q.productId)) = 1
             /\ HeldQuantity(after, q.productId)
                  = HeldQuantity(before, q.productId) + q.quantity]_vars

\* C1 witness: an add answered 200 and a line holds 1.5, which no single
\* request sets: it is 1 and 0.5 merged
C1_Witness ==
    /\ res = Response("add", 200, "Product added to cart successfully")
    /\ \E d \in 1..Len(carts) : \E i \in 1..Len(carts[d].items) :
          carts[d].items[i].quantity = 3

\* C2: a checkout that answers 201 has stored exactly one new order, with
\* status pending and one snapshot per line of the cart (product id, name,
\* image and price of the catalog at that time, the line's quantity), and
\* its last step leaves the cart document with no item.
C2_CheckoutSnapshot ==
    [][LET q == req["r1"]
       IN  /\ (q.pc = "order_create" /\ req'["r1"].pc = "order_clear") =>
                /\ Len(orders') = Len(orders) + 1
                /\ SubSeq(orders', 1, Len(orders)) = orders
                /\ LET o == orders'[Len(orders')]
                       items == carts[q.cart].items
                   IN  /\ o.status = "pending"
                       /\ Len(items) >= 1
                       /\ Len(o.items) = Len(items)
                       /\ \A i \in 1..Len(items) :
                             o.items[i] =
                                [productId |-> items[i].productId,
                                 productName |-> products[items[i].productId].name,
                                 productImage |-> products[items[i].productId].image,
                                 quantity |-> items[i].quantity,
                                 price |-> products[items[i].productId].price]
           /\ (q.pc = "order_clear" /\ res'.status = 201) =>
                /\ carts'[q.cart].items = <<>>
                /\ orders' = orders]_vars

\* C2 witness: a checkout of a cart of two lines answered 201
C2_Witness ==
    /\ res = Response("order", 201, "Order placed successfully")
    /\ Len(orders) = 1
    /\ Len(orders[1].items) = 2
    /\ orders[1].status = "pending"
    /\ carts[1].items = <<>>

\* C3: the totalAmount of every stored order is the sum of quantity * price
\* over its own items, rounded to the cent (halves up).
C3_TotalIsRoundedSum ==
    \A i \in 1..Len(orders) :
        /\ OrderSum(orders[i].items) <= 2 * orders[i].totalAmount
        /\ 2 * orders[i].totalAmount <= OrderSum(orders[i].items) + 1

\* C3 witness: an order whose sum is not a whole number of cents
C3_Witness ==
    \E i \in 1..Len(orders) : OrderSum(orders[i].items) % 2 = 1

\* C4: a checkout for an email with no cart, or with a cart of no items,
\* answers 400, stores no order and changes no cart; when the request is
\* well formed the message is "Cart is empty".
C4_EmptyCartRejected ==
    [][\A e \in EmailArgs, a \in AddressArgs, m \in PaymentArgs :
          (OrderFind("r1", e, a, m) /\ ItemsIn(carts, e) = <<>>) =>
             /\ res'.status = 400
             /\ WellFormedCheckout(a, m) /\ e # ""
                   => res' = Response("order", 400, "Cart is empty")
             /\ UNCHANGED <<carts, orders, req>>]_vars

\* C4 witness: the cart exists, holds no item, no order was ever stored,
\* and the checkout was answered "Cart is empty"
C4_Witness ==
    /\ res = Response("order", 400, "Cart is empty")
    /\ orders = <<>>
    /\ Len(carts) = 1
    /\ carts[1].items = <<>>

\* C5: no step of an admin product update or deletion changes a stored
\* order (its item names, prices, quantities, totalAmount).
C5_OrdersKeepSnapshot ==
    [][(\/ req["r1"].pc \in {"product_update", "product_delete"}
        \/ \E e \in AdminArgs, id \in ProductIdArgs :
              \/ ProductDeleteAuth("r1", e, id)
              \/ \E d \in ProductData : ProductUpdateAuth("r1", e, id, d))
         => /\ Len(orders') = Len(orders)
            /\ \A i \in 1..Len(orders) :
                  /\ orders'[i].items = orders[i].items
                  /\ orders'[i].totalAmount = orders[i].totalAmount]_vars

\* C5 witness: the product of an ordered item was updated after the order
C5_Witness ==
    /\ res = Response("product_update", 200, "Product updated successfully")
    /\ Len(orders) = 1
    /\ orders[1].items[1].productId = "p1"
    /\ orders[1].items[1].price # products["p1"].price
    /\ orders[1].items[1].productName # products["p1"].name

\* C6: there is no state in which the order of a checkout is stored while
\* the cart it was built from still holds items.
C6_CheckoutAtomic ==
    \A r \in Reqs :
        (req[r].pc = "order_clear" /\ \E i \in 1..Len(orders) : orders[i] = NewOrder(req[r]))
           => carts[req[r].cart].items = <<>>

\* C7: when the order write of a checkout fails, the step changes no cart,
\* the cart still holds the lines the checkout read, the answer is an error
\* and the checkout does nothing more.
C7_FailedOrderKeepsCart ==
    [][LET q == req["r1"]
       IN  (q.pc = "order_create" /\ orders' = orders) =>
              /\ carts' = carts
              /\ Len(carts'[q.cart].items) = Len(q.items)
              /\ \A i \in 1..Len(q.items) :
                    carts'[q.cart].items[i] = Line(q.items[i].productId, q.items[i].quantity)
              /\ res'.status = 500
              /\ req'["r1"].pc = "idle"]_vars

\* C7 witness: a checkout answered 500, no order is stored, the cart is full
C7_Witness ==
    /\ res = Response("order", 500, "Failed to create order")
    /\ orders = <<>>
    /\ Len(carts) = 1
    /\ Len(carts[1].items) = 2

\* C8: every line of every stored cart has a quantity of at least 1.
C8_QuantityAtLeastOne ==
    \A d \in 1..Len(carts) : \A i \in 1..Len(carts[d].items) :
        carts[d].items[i].quantity >= 2

\* C8 witness: an add of 0.5 for an email without a cart was refused by the
\* schema (nothing else fails an add when there is no cart)
C8_Witness ==
    /\ res = Response("add", 500, "Failed to add product to cart")
    /\ carts = <<>>
    /\ \A r \in Reqs : req[r].pc = "idle"

\* C9: within one cart no two lines reference the same product.
C9_UniqueProducts ==
    \A d \in 1..Len(carts) : \A i, j \in 1..Len(carts[d].items) :
        carts[d].items[i].productId = carts[d].items[j].productId => i = j

\* C10: there is at most one cart document for an email.
C10_OneCartPerEmail ==
    \A c, d \in 1..Len(carts) : carts[c].userEmail = carts[d].userEmail => c = d

\* C11 as stated: every add that answers 200 has raised the quantity the
\* store holds of the product by the quantity it was asked to add, so that
\* two concurrent adds of a and b leave the prior quantity plus a plus b.
C11_EachDeltaApplied ==
    [][\A r \in Reqs :
          (req[r].pc = "add_save" /\ AddSave(r) /\ res'.status = 200
             /\ FindIndex(req[r].items, req[r].productId) > 0) =>
            LET q == req[r]
                i == FindIndex(q.items, q.productId)
            IN  carts'[q.cart].items[i].quantity
                  = carts[q.cart].items[i].quantity + q.quantity]_vars

\* C11 amended: an add that finds a line and answers 200 has written the
\* quantity it read plus the quantity it was asked to add, whatever the
\* store held at the time of the write (the last writer wins).
C11_LastAddWins ==
    [][\A r \in Reqs :
          (req[r].pc = "add_save" /\ AddSave(r) /\ res'.status = 200
             /\ FindIndex(req[r].items, req[r].productId) > 0) =>
            LET q == req[r]
                i == FindIndex(q.items, q.productId)
            IN  /\ carts'[q.cart].items[i].quantity = q.items[i].quantity + q.quantity
                /\ \A d \in 1..Len(carts) : \A j \in 1..Len(carts[d].items) :
                      (d # q.cart \/ j # i) => carts'[d].items[j] = carts[d].items[j]]_vars

\* C11 witness: two adds read the same line; the first has answered 200 and
\* the store holds more than the second one read, whose save will still be
\* accepted
C11_Witness ==
    /\ res = Response("add", 200, "Product added to cart successfully")
    /\ req["r1"].pc = "idle"
    /\ req["r2"].pc = "add_save"
    /\ req["r2"].fresh
    /\ LET q == req["r2"]
           i == FindIndex(q.items, q.productId)
       IN  /\ i > 0
           /\ carts[q.cart].items[i].productId = q.productId
           /\ carts[q.cart].items[i].quantity > q.items[i].quantity

\* C12: with one request at a time, an update with a quantity of 0 or less
\* for a product of the cart that answers 200 removes the line of that
\* product and nothing else: the other lines keep their product, their
\* quantity and their order, and no other cart changes.
C12_UpdateRemovesLine ==
    [][(req["r1"].pc = "update_save" /\ req["r1"].quantity <= 0) =>
         LET q == req["r1"]
             before == carts[q.cart].items
             after == carts'[q.cart].items
             i == FindIndex(before, q.productId)
         IN  /\ res' = Response("update", 200, "Cart updated successfully")
             /\ i > 0
             /\ Len(after) = Len(before) - 1
             /\ LinesOf(after, q.productId) = {}
             /\ \A j \in 1..Len(after) : after[j] = before[IF j < i THEN j ELSE j + 1]
             /\ Len(carts') = Len(carts)
             /\ \A d \in 1..Len(carts) : d # q.cart => carts'[d] = carts[d]]_vars

\* C12 witness: an update answered 200 and the cart is left with the one
\* line of p2 at 1.5, a quantity no update request sets: the update removed
\* the line of p1 that stood before it
C12_Witness ==
    /\ res = Response("update", 200, "Cart updated successfully")
    /\ Len(carts) = 1
    /\ carts[1].items = <<Line("p2", 3)>>

\* C13 as stated: with one request at a time, an update with a quantity
\* above 0 for a product of the cart leaves the line at that quantity.
C13_UpdateSetsAnyPositive ==
    [][(req["r1"].pc = "update_save" /\ req["r1"].quantity > 0) =>
         LET q == req["r1"]
         IN  /\ res'.status = 200
             /\ HeldQuantity(carts'[q.cart].items, q.productId) = q.quantity]_vars

\* C13 amended: with one request at a time, an update with a quantity of 1
\* or more for a product of the cart answers 200 and leaves the line at
\* exactly that quantity, whatever it was, and every other line and cart as
\* it was; with a quantity between 0 and 1 it answers 500 and changes
\* nothing.
C13_UpdateSetsQuantity ==
    [][(req["r1"].pc = "update_save" /\ req["r1"].quantity > 0) =>
         LET q == req["r1"]
             before == carts[q.cart].items
             after == carts'[q.cart].items
             i == FindIndex(before, q.productId)
         IN  IF q.quantity >= 2
             THEN /\ res' = Response("update", 200, "Cart updated successfully")
                  /\ i > 0
                  /\ Len(after) = Len(before)
                  /\ after[i] = Line(q.productId, q.quantity)
                  /\ \A j \in 1..Len(before) : j # i => after[j] = before[j]
                  /\ Len(carts') = Len(carts)
                  /\ \A d \in 1..Len(carts) : d # q.cart => carts'[d] = carts[d]
             ELSE /\ res' = Response("update", 500, "Failed to update cart")
                  /\ carts' = carts]_vars

\* C13 witness: an update answered 200 on a cart of two lines, p1 at the
\* quantity 1 an update sets and p2 at 1.5, which only adds produce: the
\* update was the one of p1 to 1
C13_Witness ==
    /\ res = Response("update", 200, "Cart updated successfully")
    /\ Len(carts) = 1
    /\ carts[1].items = <<Line("p1", 2), Line("p2", 3)>>

\* C14: with one request at a time, a remove for an email without a cart,
\* or for a product that is not in the cart, answers 404 and changes no
\* cart; a remove for a product of the cart answers 200 and removes the line
\* of that product and nothing else.
C14_RemoveOneLineOr404 ==
    [][/\ \A e \in Emails, p \in ProductIds :
            (RemoveFind("r1", e, p) /\ LinesOf(ItemsIn(carts, e), p) = {}) =>
               /\ res'.status = 404
               /\ res'.message = IF FindCart(e) = 0 THEN "Cart not found"
                                  ELSE "Product not found in cart"
               /\ UNCHANGED <<carts, req>>
       /\ req["r1"].pc = "remove_save" =>
            LET q == req["r1"]
                before == carts[q.cart].items
                after == carts'[q.cart].items
                i == FindIndex(before, q.productId)
            IN  /\ res' = Response("remove", 200, "Product removed from cart successfully")
                /\ i > 0
                /\ Len(after) = Len(before) - 1
                /\ LinesOf(after, q.productId) = {}
                /\ \A j \in 1..Len(after) : after[j] = before[IF j < i THEN j ELSE j + 1]
                /\ Len(carts') = Len(carts)
                /\ \A d \in 1..Len(carts) : d # q.cart => carts'[d] = carts[d]]_vars

\* C14 witness: a remove answered 200 and left the line of p2 at 1.5 alone
\* in the cart: it removed the line of p1
C14_Witness ==
    /\ res = Response("remove", 200, "Product removed from cart successfully")
    /\ Len(carts) = 1
    /\ carts[1].items = <<Line("p2", 3)>>

\* C15: with one request at a time, an update, whatever quantity it gives,
\* for an email without a cart or for a product that is not in the cart
\* answers 404, starts no write and changes no cart: no cart and no line is
\* created.
C15_UpdateMissingIs404 ==
    [][\A e \in Emails, p \in ProductIds, v \in QtyValues :
          (UpdateFind("r1", e, p, Qty(v)) /\ LinesOf(ItemsIn(carts, e), p) = {}) =>
             /\ res'.status = 404
             /\ res'.message = IF FindCart(e) = 0 THEN "Cart not found"
                                ELSE "Product not found in cart"
             /\ UNCHANGED <<carts, req>>]_vars

\* C15 witness: an update was answered 404 for a product the cart does not
\* hold, and the cart holds its other line only
C15_Witness ==
    /\ res = Response("update", 404, "Product not found in cart")
    /\ Len(carts) = 1
    /\ carts[1].items = <<Line("p1", 3)>>

\* C16: with one request at a time, a clear for an email answers 200 and
\* leaves a cart document of that email with no item and every other cart
\* as it was; its previousItemCount is the number of lines the cart held
\* before, 0 when there was no cart.  A clear that follows a clear
\* therefore reports 0.
C16_ClearReportsLineCount ==
    [][req["r1"].pc = "clear_save" =>
         LET e == req["r1"].userEmail
         IN  /\ res'.op = "clear"
             /\ res'.status = 200
             /\ res'.previousItemCount = Len(ItemsIn(carts, e))
             /\ FindCartFrom(carts', e, 1) # 0
             /\ ItemsIn(carts', e) = <<>>
             /\ \A d \in 1..Len(carts) :
                   carts[d].userEmail # e => carts'[d] = carts[d]]_vars

\* C16 witness: a clear of a cart of two lines, holding 1.5 and 1 of its
\* products, has reported previousItemCount 2 and left no item
C16_Witness ==
    /\ res.op = "clear"
    /\ res.status = 200
    /\ res.previousItemCount = 2
    /\ Len(carts) = 1
    /\ carts[1].items = <<>>

\* C17: a read of the cart of an email that has no cart document answers
\* 200 with no item, and changes nothing: no cart document is created.
C17_GetWithoutCart ==
    [][\A e \in Emails :
          (CartGet("r1", e) /\ FindCart(e) = 0) =>
             /\ res' = Response("cart", 200, "")
             /\ res'.items = <<>>
             /\ UNCHANGED <<products, users, carts, orders, req>>]_vars

\* C17 witness: the one cart of the store is full, and a read was answered
\* 200 with no item: it was the read of the email that has no cart
C17_Witness ==
    /\ res = Response("cart", 200, "")
    /\ Len(carts) = 1
    /\ Len(carts[1].items) = 2

\* C18: an add whose quantity is given and is 0 or less is answered 400 and
\* goes no further: it starts no write and changes no cart.
C18_AddRejectsNonPositive ==
    [][\A e \in Emails, p \in ProductIds, v \in QtyValues :
          (v <= 0 /\ AddFind("r1", e, p, Qty(v))) =>
             /\ res' = Response("add", 400, "Quantity must be greater than 0")
             /\ UNCHANGED <<carts, req>>]_vars

\* C19: an admin order update with a status outside the five values is
\* refused before any write: for an admin and a well-formed id the answer is
\* 400 "Invalid order status", no write is started and no order changes.
\* Hence the status of every stored order is one of the five values.
C19_InvalidStatusRejected ==
    [][/\ \A e \in AdminArgs, id \in OrderIdArgs, st \in StatusArgs \ Statuses :
            OrderUpdateAuth("r1", e, id, st) =>
               /\ res'.status \in {400, 403}
               /\ (IsValidOrderId(id) /\ IsAdmin(e)) =>
                     res' = Response("order_update", 400, "Invalid order status")
               /\ UNCHANGED <<orders, req>>
       /\ \A i \in 1..Len(orders') : orders'[i].status \in Statuses]_vars

\* C19 witness: the order stands at shipped and an update was answered
\* "Invalid order status"
C19_Witness ==
    /\ res = Response("order_update", 400, "Invalid order status")
    /\ Len(orders) = 1
    /\ orders[1].status = "shipped"

\* C20: the write of an admin order update for an existing order answers
\* 200 and leaves the order at exactly the status asked for, whatever its
\* status was, with nothing else of it and no other order changed.
C20_AnyStatusFollowsAny ==
    [][(req["r1"].pc = "order_update" /\ req["r1"].orderId <= Len(orders)) =>
         LET q == req["r1"]
         IN  /\ q.status \in Statuses
             /\ res' = Response("order_update", 200, "Order status updated successfully")
             /\ orders' = [orders EXCEPT ![q.orderId].status = q.status]]_vars

\* C20 witness: an update was answered 200 and the order, created pending,
\* stands at delivered
C20_Witness ==
    /\ res = Response("order_update", 200, "Order status updated successfully")
    /\ Len(orders) = 1
    /\ orders[1].status = "delivered"

\* a request to one of the admin routes that change a record, made with the
\* email e, takes its first step
AdminRequest(e) ==
    \/ \E d \in ProductCreateArgs : ProductCreateAuth("r1", e, d)
    \/ \E id \in ProductIds, d \in ProductData : ProductUpdateAuth("r1", e, id, d)
    \/ \E id \in ProductIds : ProductDeleteAuth("r1", e, id)
    \/ \E id \in Emails, role \in RoleArgs : UserUpdateAuth("r1", e, id, role)
    \/ \E id \in Emails : UserDeleteAuth("r1", e, id)
    \/ \E id \in 1..(MaxOrders + 1), st \in StatusArgs : OrderUpdateAuth("r1", e, id, st)

C22_GateTellsFailuresApart ==
    [][\A e \in Emails :
          (users[e] = "none" /\ AdminRequest(e)) =>
             ~(res'.status = 403 /\ res'.message = "Admin access required")]_vars

\* C23: a checkout whose payment method is given but is not one of card,
\* cash_on_delivery, upi is answered with a validation error (400, as for a
\* missing field), stores no order and changes no cart.
C23_UnknownPaymentIsValidationError ==
    [][(req["r1"].pc = "order_create" /\ req["r1"].paymentMethod \notin PaymentMethods) =>
          /\ res'.status = 400
          /\ UNCHANGED <<orders, carts>>]_vars

\* C24: a signup creates its account with the role user, whatever role the
\* body names; an account gets the role admin only by the write of an admin
\* create, which is reached only with the right admin key, or by the write
\* of a user update, which is reached only with the email of an admin.
C24_AdminRoleIsGated ==
    [][/\ \A e \in Emails, role \in RoleArgs :
            (SignupFind("r1", e, role) /\ req'["r1"].pc = "signup_create") =>
               req'["r1"].role = "user"
       /\ req["r1"].pc = "signup_create" =>
            \A e \in DOMAIN users : users'[e] # users[e] => users'[e] = "user"
       /\ \A e \in DOMAIN users :
            (users'[e] = "admin" /\ users[e] # "admin") =>
               req["r1"].pc \in {"admin_create", "user_update"}
       /\ (req["r1"].pc = "idle" /\ req'["r1"].pc = "admin_create") =>
            \A e \in Emails, k \in AdminKeyArgs :
               AdminCreateFind("r1", e, k) => k = ADMIN_KEY
       /\ (req["r1"].pc = "idle" /\ req'["r1"].pc = "user_update") =>
            \A e \in Emails \cup {AdminEmail}, id \in UserIdArgs, role \in RoleArgs :
               UserUpdateAuth("r1", e, id, role) => users[e] = "admin"]_vars

\* C24 witness: a signup was answered 201 and its account has the role user
C24_Witness ==
    /\ res = Response("signup", 201, "User registered successfully")
    /\ users["bob@shop.io"] = "user"
    /\ req["r1"].pc = "idle"

\* C25: no step removes a stored order or changes its userEmail, items,
\* totalAmount, deliveryAddress or paymentMethod, and a new order is added
\* after the stored ones; a step that changes the status of an order is the
\* write of an admin order status update that names this order.
C25_OrdersOnlyChangeStatus ==
    [][/\ Len(orders') >= Len(orders)
       /\ \A i \in 1..Len(orders) :
            /\ orders'[i] = [orders[i] EXCEPT !.status = orders'[i].status]
            /\ orders'[i].status # orders[i].status =>
                  /\ req["r1"].pc = "order_update"
                  /\ req["r1"].orderId = i
                  /\ orders'[i].status = req["r1"].status]_vars

\* C25 witness: the order was shipped, and after that the account was
\* deleted by the admin; the order is as it was created but for the status
C25_Witness ==
    /\ res = Response("user_delete", 200, "User deleted successfully")
    /\ Len(orders) = 1
    /\ orders[1] = [userEmail |-> "ann@shop.io",
                     items |-> <<[productId |-> "p1", productName |-> "Mouse",
                                  productImage |-> "mouse.jpg", quantity |-> 3,
                                  price |-> 1099]>>,
                     totalAmount |-> 1649,
                     deliveryAddress |-> FullAddress, paymentMethod |-> "card",
                     status |-> "shipped"]

\* C26: a checkout does not store an order made from the contents of a
\* cart from which another checkout, still to empty the cart, has stored
\* one: two checkouts that read the same cart do not both store an order.
C26_NoDoubleOrder ==
    [][\A r \in Reqs :
          (req[r].pc = "order_create" /\ Len(orders') = Len(orders) + 1) =>
             ~\E s \in Reqs \ {r} :
                 /\ req[s].pc = "order_clear"
                 /\ req[s].cart = req[r].cart
                 /\ req[s].items = req[r].items]_vars

\* C27: with one request at a time, an add of a product that the catalog
\* does not hold answers 200 and stores the line; a checkout that read a
\* cart with a line whose product does not exist answers 500, stores no
\* order and changes no cart.
C27_DanglingProduct ==
    [][LET q == req["r1"]
       IN  /\ (q.pc = "add_save" /\ ~products[q.productId].present) =>
                /\ res' = Response("add", 200, "Product added to cart successfully")
                /\ HeldQuantity(ItemsIn(carts', q.userEmail), q.productId)
                     = HeldQuantity(ItemsIn(carts, q.userEmail), q.productId) + q.quantity
           /\ (q.pc = "order_create"
                 /\ \E i \in 1..Len(carts[q.cart].items) :
                       ~products[carts[q.cart].items[i].productId].present) =>
                /\ res' = Response("order", 500, "Failed to create order")
                /\ UNCHANGED <<orders, carts>>
                /\ req'["r1"].pc = "idle"]_vars

\* C27 witness: the product p1 is not in the catalog, the cart holds a line
\* of it, and the checkout was answered 500 with no order stored
C27_Witness ==
    /\ res = Response("order", 500, "Failed to create order")
    /\ orders = <<>>
    /\ ~products["p1"].present
    /\ Len(carts) = 1
    /\ carts[1].items = <<Line("p1", 3)>>
    /\ req["r1"].pc = "idle"

\* C28: a checkout request without a user email, a payment method, a
\* delivery address or any one of the six address fields is answered 400
\* with a validation message; the request ends there, before the cart is
\* read: no order is stored and no cart changes.
C28_IncompleteCheckoutRejected ==
    [][\A e \in {"ann@shop.io", ""}, a \in AddressArgs, m \in PaymentArgs :
          (OrderFind("r1", e, a, m) /\ (e = "" \/ ~WellFormedCheckout(a, m))) =>
             /\ res'.op = "order"
             /\ res'.status = 400
             /\ res'.message \in
                   {"User email, delivery address, and payment method are required",
                    "Complete delivery address is required"}
             /\ UNCHANGED <<orders, carts, req>>]_vars

\* C28 witness: the cart holds two lines of existing products and the
\* checkout was refused for an incomplete address, with no order stored
C28_Witness ==
    /\ res = Response("order", 400, "Complete delivery address is required")
    /\ orders = <<>>
    /\ Len(carts) = 1
    /\ Len(carts[1].items) = 2
    /\ \A p \in ProductIds : products[p].present
    /\ req["r1"].pc = "idle"

\* C29: a quantity added with success while a checkout of the same user is
\* between its cart read and its cart-emptying write is not lost: when the
\* checkout empties the cart, the cart holds exactly the quantities that
\* went into the order.
C29_AddDuringCheckoutKept ==
    [][\A r \in Reqs :
          (/\ req[r].pc = "order_clear"
           /\ req'[r].pc = "idle"
           /\ res' = Response("order", 201, "Order placed successfully")) =>
             \A p \in ProductIds :
                HeldQuantity(carts[req[r].cart].items, p) = HeldQuantity(req[r].items, p)]_vars

\* the email a request acts for, on a step that moves the request r
Requester(r) == IF req[r].pc = "idle" THEN req'[r].userEmail ELSE req[r].userEmail

\* C30: a cart operation (add, update, remove, clear) or a checkout for one
\* email leaves every cart of another email and every stored order as it
\* was; a cart it creates and an order it stores carry its own email; a
\* request that is refused before its cart read changes nothing.
C30_OtherOwnersUntouched ==
    [][/\ UNCHANGED req => UNCHANGED <<carts, orders>>
       /\ \A r \in Reqs : req'[r].pc # req[r].pc =>
             /\ Len(carts') >= Len(carts)
             /\ \A d \in 1..Len(carts) :
                   carts[d].userEmail # Requester(r) => carts'[d] = carts[d]
             /\ \A d \in (Len(carts) + 1)..Len(carts') :
                   carts'[d].userEmail = Requester(r)
             /\ Len(orders') >= Len(orders)
             /\ \A o \in 1..Len(orders) : orders'[o] = orders[o]
             /\ \A o \in (Len(orders) + 1)..Len(orders') :
                   orders'[o].userEmail = Requester(r)]_vars

\* C30 witness: bob's checkout has just stored the second order and emptied
\* bob's cart, while ann's order and ann's refilled cart are as they were
C30_Witness ==
    /\ res = Response("order", 201, "Order placed successfully")
    /\ Len(orders) = 2
    /\ orders[1].userEmail = "ann@shop.io"
    /\ orders[2].userEmail = "bob@shop.io"
    /\ ItemsIn(carts, "ann@shop.io") = <<Line("p1", 3)>>
    /\ FindCart("bob@shop.io") # 0
    /\ CartIsEmpty("bob@shop.io")
    /\ \A r \in Reqs : req[r].pc = "idle"

====
